---- MODULE Spec2Model ----
(***************************************************************************)
(* The Umm arena allocator of malloc.h: a byte array viewed as an array of *)
(* 8-byte cells, each starting with the packed header                      *)
(*   prev (uint16, bit 15 = free flag) | next | prev_free | next_free.     *)
(* The storage is modelled byte by byte (little-endian uint16 fields), so  *)
(* that headers and payload share the bytes they share in the program.     *)
(* Every C++ function is an operator from a run record                     *)
(*   [st |-> "ok" | "undefined" | "aborted" | "hung", m |-> bytes, ...]    *)
(* to a run record, written statement by statement in the order of the     *)
(* source, so that aliased references behave as they do in the program.    *)
(***************************************************************************)
EXTENDS Integers, Sequences, FiniteSets, Bags, TLC

(***************************************************************************)
(* Bounds of the model.                                                    *)
(***************************************************************************)
\* number of cells of the arena: bytes / sizeof(free_block_t)
ArenaCells == 6
\* in-range requests ask for 1..MaxCells cells (and for 0 bytes)
MaxCells == 3
\* pointers the caller holds at a time
MaxLive == 2
\* calls the caller makes from the first request whose cell count wraps on
MaxAfter == 2
\* calls replayed after init() against a never-used arena
MaxReplay == 2

(***************************************************************************)
(* Program constants.                                                      *)
(***************************************************************************)
\* blockref_t is uint16_t: one limb of the multi-limb integers below
Limb == 65536
free_bit == 32768
free_mask == 32767
block_size == 8
block_overhead == 4
\* offsetof(used_block_t, data)
data_offset == 4
\* byte offsets of the header fields in a packed free_block_t
off_prev == 0
off_next == 2
off_prev_free == 4
off_next_free == 6
\* size_t is 64 bits (4 limbs), unsigned is 32 bits (2 limbs)
SizeLimbs == 4
UnsignedLimbs == 2

block_count_ == ArenaCells
Bytes == block_count_ * block_size
nullptr == -1

(***************************************************************************)
(* Fixed-width unsigned integers: a w-limb number is a tuple of w limbs,   *)
(* most significant first, each in 0..Limb-1.  All arithmetic wraps        *)
(* modulo Limb^w, as unsigned arithmetic does in C++.                      *)
(***************************************************************************)
Rev(s) == [i \in 1..Len(s) |-> s[Len(s) + 1 - i]]

RECURSIVE AddRev(_, _, _)
AddRev(a, b, c) ==
  IF a = <<>> THEN <<>>
  ELSE LET t == Head(a) + Head(b) + c
       IN  <<t % Limb>> \o AddRev(Tail(a), Tail(b), t \div Limb)

Add(a, b) == Rev(AddRev(Rev(a), Rev(b), 0))

Comp(a) == [i \in 1..Len(a) |-> Limb - 1 - a[i]]

Sub(a, b) == Rev(AddRev(Rev(a), Rev(Comp(b)), 1))

\* n in 0..Limb^2-1 as a w-limb number
FromNat(n, w) ==
  [i \in 1..w |-> IF i = w THEN n % Limb
                  ELSE IF i = w - 1 THEN (n \div Limb) % Limb
                  ELSE 0]

\* the value of a number whose limbs above the lowest two are zero
ToNat(a) ==
  IF Len(a) = 1 THEN a[1] ELSE a[Len(a) - 1] * Limb + a[Len(a)]

\* fits in 30 bits: safe to use as a plain integer
IsSmall(a) ==
  /\ \A i \in 1..Len(a) : i < Len(a) - 1 => a[i] = 0
  /\ (Len(a) > 1 => a[Len(a) - 1] < 16384)

RECURSIVE Lt(_, _)
Lt(a, b) ==
  IF a = <<>> THEN FALSE
  ELSE IF Head(a) # Head(b) THEN Head(a) < Head(b)
  ELSE Lt(Tail(a), Tail(b))

Le(a, b) == ~Lt(b, a)

RECURSIVE DivRem(_, _, _)
DivRem(a, d, r) ==
  IF a = <<>> THEN <<>>
  ELSE LET t == r * Limb + Head(a)
       IN  <<t \div d>> \o DivRem(Tail(a), d, t % d)

\* a / d for a small divisor d
Div(a, d) == DivRem(a, d, 0)

RECURSIVE MulRev(_, _, _)
MulRev(a, k, c) ==
  IF a = <<>> THEN <<>>
  ELSE LET t == Head(a) * k + c
       IN  <<t % Limb>> \o MulRev(Tail(a), k, t \div Limb)

\* a * k for a small factor k
Mul(a, k) == Rev(MulRev(Rev(a), k, 0))

\* conversion to a narrower unsigned type keeps the low limbs
Narrow(a, w) == SubSeq(a, Len(a) - w + 1, Len(a))

\* conversion to a wider unsigned type zero-extends
Widen(a, w) == [i \in 1..(w - Len(a)) |-> 0] \o a

SizeT(n) == FromNat(n, SizeLimbs)
Unsigned(n) == FromNat(n, UnsignedLimbs)
\* an int or ptrdiff_t d, |d| < Limb, converted to unsigned
UnsignedOfInt(d) ==
  IF d >= 0 THEN Unsigned(d) ELSE Sub(Unsigned(0), Unsigned(0 - d))
\* conversion to blockref_t
BlockRef(u) == u[Len(u)]

(***************************************************************************)
(* The storage and its header fields.                                      *)
(***************************************************************************)
InArena(c) == c \in 0..(block_count_ - 1)

Rd16(m, a) == m[a] + 256 * m[a + 1]

Wr16(m, a, v) == [m EXCEPT ![a] = v % 256, ![a + 1] = v \div 256]

\* blocks_[c].<field>; the value read through a reference that lies outside
\* the arena is never used: the function that dereferences it is undefined
Get(m, c, off) ==
  IF InArena(c) THEN Rd16(m, c * block_size + off) ELSE 0

Put(m, c, off, v) ==
  IF InArena(c) THEN Wr16(m, c * block_size + off, v) ELSE m

BitAnd(v, mask) ==
  IF mask = free_bit THEN (IF v >= free_bit THEN free_bit ELSE 0)
  ELSE v % free_bit

\* v | flag, for flag 0 or free_bit
BitOr(v, flag) ==
  IF flag = free_bit /\ v < free_bit THEN v + free_bit ELSE v

is_free(m, b) == BitAnd(Get(m, b, off_prev), free_bit) # 0

is_last_block(m, b) == Get(m, b, off_next) = 0

block_from_ptr(ptr) == (ptr - data_offset) \div block_size

ptr_from_block(b) == b * block_size + data_offset

set_free(m, b, value) ==
  IF value
  THEN Put(m, b, off_prev, BitAnd(Get(m, b, off_prev), free_mask) + free_bit)
  ELSE Put(m, b, off_prev, BitAnd(Get(m, b, off_prev), free_mask))

\* unsigned size_in_blocks: 0 for the last block, else next - index
size_in_blocks(m, b) ==
  IF is_last_block(m, b) THEN Unsigned(0)
  ELSE UnsignedOfInt(Get(m, b, off_next) - b)

(***************************************************************************)
(* Run records.  A call that dereferences a reference outside the arena    *)
(* has undefined behaviour ("undefined"); a failed assert() ends a build   *)
(* with assertions ("aborted"); a loop that cannot end is "hung".          *)
(***************************************************************************)
Run(m) == [st |-> "ok", m |-> m, ret |-> nullptr]

Undefined(r) == [r EXCEPT !.st = "undefined"]

Returning(r, p) == IF r.st = "ok" THEN [r EXCEPT !.ret = p] ELSE r

\* an init() that leaves next_free and prev_free of cell 1 as it finds them
init_keeps_free_links(m) ==
  LET last == block_count_ - 1
      m1 == Put(m,  0, off_next, 1)
      m2 == Put(m1, 0, off_prev, 0)
      m3 == Put(m2, 0, off_next_free, 1)
      m4 == Put(m3, 0, off_prev_free, 1)
      m5 == Put(m4, 1, off_next, last)
      m6 == Put(m5, 1, off_prev, 0)
      m9 == set_free(m6, 1, TRUE)
      m10 == Put(m9, last, off_next, 0)
  IN  Put(m10, last, off_prev, 1)

\* Umm::init
init(m) ==
  LET last == block_count_ - 1
      m1 == Put(m,  0, off_next, 1)
      m2 == Put(m1, 0, off_prev, 0)
      m3 == Put(m2, 0, off_next_free, 1)
      m4 == Put(m3, 0, off_prev_free, 1)
      m5 == Put(m4, 1, off_next, last)
      m6 == Put(m5, 1, off_prev, 0)
      m7 == Put(m6, 1, off_next_free, 0)
      m8 == Put(m7, 1, off_prev_free, 0)
      m9 == set_free(m8, 1, TRUE)
      m10 == Put(m9, last, off_next, 0)
  IN  Put(m10, last, off_prev, 1)

\* Umm::blocks_to_hold_bytes: size_t arithmetic, narrowed to unsigned
blocks_to_hold_bytes(bytes) ==
  Narrow(Div(Add(Add(bytes, SizeT(block_overhead)), SizeT(block_size - 1)),
             block_size),
         UnsignedLimbs)

\* the loop of Umm::find_first_free_block_of_size, from block b on; a walk
\* of more than block_count_ steps has been at some block twice and, as
\* it writes nothing, never ends
RECURSIVE find_walk(_, _, _, _)
find_walk(m, b, blocks_requested, fuel) ==
  IF ~InArena(b) THEN [st |-> "undefined", b |-> nullptr]
  ELSE IF b = 0 THEN [st |-> "ok", b |-> nullptr]
  ELSE IF Le(blocks_requested, size_in_blocks(m, b)) THEN [st |-> "ok", b |-> b]
  ELSE IF fuel = 0 THEN [st |-> "hung", b |-> nullptr]
  ELSE find_walk(m, Get(m, b, off_next_free), blocks_requested, fuel - 1)

find_first_free_block_of_size(m, blocks_requested) ==
  find_walk(m, Get(m, 0, off_next_free), blocks_requested, block_count_)

\* Umm::split_head; ret is the index of the second block b1
split_head(r, b0, split_size) ==
  IF r.st # "ok" THEN r
  ELSE IF ~InArena(b0) THEN Undefined(r)
  ELSE LET b0_index == Unsigned(b0)
           b1_index == Add(b0_index, split_size)
           b1 == BlockRef(b1_index)
           b0_next == Get(r.m, b0, off_next)
           m1 == Put(r.m, b1, off_prev, BlockRef(b0_index))
           m2 == Put(m1, b1, off_next, Get(m1, b0, off_next))
           m3 == Put(m2, b0, off_next, BlockRef(b1_index))
           m4 == Put(m3, b0_next, off_prev,
                     BitOr(BlockRef(b1_index),
                           BitAnd(Get(m3, b0_next, off_prev), free_bit)))
       IN  IF InArena(b1) /\ InArena(b0_next)
           THEN [r EXCEPT !.m = m4, !.ret = b1]
           ELSE Undefined(r)

\* Umm::split_tail; ret is the index of the second block b1
split_tail(r, b0, split_size) ==
  IF r.st # "ok" THEN r
  ELSE IF ~InArena(b0) THEN Undefined(r)
  ELSE LET b0_index == Unsigned(b0)
           b1_index == Sub(Unsigned(Get(r.m, b0, off_next)), split_size)
           b1 == BlockRef(b1_index)
           b0_next == Get(r.m, b0, off_next)
           m1 == Put(r.m, b1, off_prev, BlockRef(b0_index))
           m2 == Put(m1, b1, off_next, Get(m1, b0, off_next))
           m3 == Put(m2, b0, off_next, BlockRef(b1_index))
           m4 == Put(m3, b0_next, off_prev,
                     BitOr(BlockRef(b1_index),
                           BitAnd(Get(m3, b0_next, off_prev), free_bit)))
       IN  IF InArena(b1) /\ InArena(b0_next)
           THEN [r EXCEPT !.m = m4, !.ret = b1]
           ELSE Undefined(r)

\* Umm::unfree
unfree(r, b) ==
  IF r.st # "ok" THEN r
  ELSE IF ~InArena(b) THEN Undefined(r)
  ELSE LET prev_free == Get(r.m, b, off_prev_free)
           next_free == Get(r.m, b, off_next_free)
           m1 == Put(r.m, prev_free, off_next_free, Get(r.m, b, off_next_free))
           m2 == Put(m1, next_free, off_prev_free, Get(m1, b, off_prev_free))
           m3 == set_free(m2, b, FALSE)
       IN  IF InArena(prev_free) /\ InArena(next_free)
           THEN [r EXCEPT !.m = m3, !.ret = b]
           ELSE Undefined(r)

\* a join that does not point the following block back to b0
join_leaves_back_link(r, b0, b1, ndebug) ==
  IF r.st # "ok" THEN r
  ELSE IF ~(InArena(b0) /\ InArena(b1)) THEN Undefined(r)
  ELSE IF ~ndebug /\ ~( /\ Get(r.m, b0, off_next) = b1
                        /\ BitAnd(Get(r.m, b1, off_prev), free_mask) = b0 )
       THEN [r EXCEPT !.st = "aborted"]
  ELSE LET m1 == Put(r.m, b0, off_next, Get(r.m, b1, off_next))
           next == Get(m1, b1, off_next)
       IN  IF InArena(next) THEN [r EXCEPT !.m = m1] ELSE Undefined(r)

\* Umm::join; ndebug says whether the build compiles assert() away
join(r, b0, b1, ndebug) ==
  IF r.st # "ok" THEN r
  ELSE IF ~(InArena(b0) /\ InArena(b1)) THEN Undefined(r)
  ELSE IF ~ndebug /\ ~( /\ Get(r.m, b0, off_next) = b1
                        /\ BitAnd(Get(r.m, b1, off_prev), free_mask) = b0 )
       THEN [r EXCEPT !.st = "aborted"]
  ELSE LET m1 == Put(r.m, b0, off_next, Get(r.m, b1, off_next))
           next == Get(m1, b1, off_next)
           m2 == Put(m1, next, off_prev, BitAnd(Get(m1, b1, off_prev), free_mask))
       IN  IF InArena(next) THEN [r EXCEPT !.m = m2] ELSE Undefined(r)

\* the else branch of Umm::free(free_block_t &): add block to the head of
\* the free list
push_free(r, block) ==
  LET index == block
      m1 == Put(r.m, block, off_next_free, Get(r.m, 0, off_next_free))
      m2 == Put(m1, block, off_prev_free, 0)
      m3 == set_free(m2, block, TRUE)
      head == Get(m3, 0, off_next_free)
      m4 == Put(m3, head, off_prev_free, index)
      m5 == Put(m4, 0, off_next_free, index)
  IN  IF InArena(head) THEN [r EXCEPT !.m = m5] ELSE Undefined(r)

\* Umm::free(free_block_t &)
free_block(r, block, ndebug) ==
  IF r.st # "ok" THEN r
  ELSE IF ~InArena(block) THEN Undefined(r)
  ELSE LET prev == BitAnd(Get(r.m, block, off_prev), free_mask)
           next == Get(r.m, block, off_next)
           r1 == IF ~InArena(next) THEN Undefined(r)
                 ELSE IF is_free(r.m, next)
                      THEN join(unfree(r, next), block, next, ndebug)
                      ELSE r
       IN  IF r1.st # "ok" THEN r1
           ELSE IF ~InArena(prev) THEN Undefined(r1)
           ELSE IF is_free(r1.m, prev) THEN join(r1, prev, block, ndebug)
           ELSE push_free(r1, block)

\* a free that answers a null pointer by setting the arena up again
free_null_inits(m, ptr, ndebug) ==
  IF ptr = nullptr THEN Run(init(m))
  ELSE Returning(free_block(Run(m), block_from_ptr(ptr), ndebug), nullptr)

\* Umm::free(void *)
free(m, ptr, ndebug) ==
  IF ptr = nullptr THEN Run(m)
  ELSE Returning(free_block(Run(m), block_from_ptr(ptr), ndebug), nullptr)

\* a malloc that takes the first free block off the free list before it
\* knows whether the block is large enough
malloc_unfrees_first(m, size) ==
  IF size = SizeT(0) THEN Run(m)
  ELSE LET blocks_required == blocks_to_hold_bytes(size)
           f == find_first_free_block_of_size(m, blocks_required)
           head == Get(m, 0, off_next_free)
       IN  IF f.st # "ok" THEN [Run(m) EXCEPT !.st = f.st]
           ELSE IF f.b = nullptr
           THEN IF head = 0 THEN Run(m)
                ELSE Returning(unfree(Run(m), head), nullptr)
           ELSE LET b_size == size_in_blocks(m, f.b)
                IN  IF Lt(Add(blocks_required, Unsigned(1)), b_size)
                    THEN LET t == split_tail(Run(m), f.b, blocks_required)
                         IN  Returning(t, ptr_from_block(t.ret))
                    ELSE Returning(unfree(Run(m), f.b), ptr_from_block(f.b))

\* Umm::malloc
malloc(m, size) ==
  IF size = SizeT(0) THEN Run(m)
  ELSE LET blocks_required == blocks_to_hold_bytes(size)
           f == find_first_free_block_of_size(m, blocks_required)
       IN  IF f.st # "ok" THEN [Run(m) EXCEPT !.st = f.st]
           ELSE IF f.b = nullptr THEN Run(m)
           ELSE LET b_size == size_in_blocks(m, f.b)
                IN  IF Lt(Add(blocks_required, Unsigned(1)), b_size)
                    THEN LET t == split_tail(Run(m), f.b, blocks_required)
                         IN  Returning(t, ptr_from_block(t.ret))
                    ELSE Returning(unfree(Run(m), f.b), ptr_from_block(f.b))

\* memmove(dst, src, n) on byte offsets into the storage; n is a size_t
memmove(r, dst, src, n) ==
  IF r.st # "ok" THEN r
  ELSE IF n = SizeT(0) THEN r
  ELSE IF ~IsSmall(n) THEN Undefined(r)
  ELSE LET len == ToNat(n)
       IN  IF dst < 0 \/ src < 0 \/ dst + len > Bytes \/ src + len > Bytes
           THEN Undefined(r)
           ELSE [r EXCEPT !.m = [a \in 0..(Bytes - 1) |->
                                   IF a >= dst /\ a < dst + len
                                   THEN r.m[a - dst + src] ELSE r.m[a]]]

\* a grow branch that gives the block up when it finds no larger one
realloc_grow_frees(m, ptr, new_size, ndebug) ==
  LET block == block_from_ptr(ptr)
      current_size == size_in_blocks(m, block)
      f == find_first_free_block_of_size(m, new_size)
      current_size_in_bytes ==
        Narrow(Sub(Mul(Widen(current_size, SizeLimbs), block_size),
                   SizeT(data_offset)),
               UnsignedLimbs)
  IN  IF f.st # "ok" THEN [Run(m) EXCEPT !.st = f.st]
      ELSE IF f.b # nullptr
      THEN LET r1 == unfree(Run(m), f.b)
               r2 == memmove(r1, ptr_from_block(f.b), ptr,
                             Widen(current_size_in_bytes, SizeLimbs))
               r3 == free_block(r2, block, ndebug)
           IN  Returning(r3, ptr_from_block(f.b))
      ELSE Returning(free_block(Run(m), block, ndebug), nullptr)

\* the grow branch of Umm::realloc: find a new larger block and copy the
\* data there
realloc_grow(m, ptr, new_size, ndebug) ==
  LET block == block_from_ptr(ptr)
      current_size == size_in_blocks(m, block)
      f == find_first_free_block_of_size(m, new_size)
      current_size_in_bytes ==
        Narrow(Sub(Mul(Widen(current_size, SizeLimbs), block_size),
                   SizeT(data_offset)),
               UnsignedLimbs)
  IN  IF f.st # "ok" THEN [Run(m) EXCEPT !.st = f.st]
      ELSE IF f.b # nullptr
      THEN LET r1 == unfree(Run(m), f.b)
               r2 == memmove(r1, ptr_from_block(f.b), ptr,
                             Widen(current_size_in_bytes, SizeLimbs))
               r3 == free_block(r2, block, ndebug)
           IN  Returning(r3, ptr_from_block(f.b))
      ELSE Run(m)

\* Umm::realloc with ptr # nullptr and new_size_in_bytes # 0
realloc_block(m, ptr, new_size_in_bytes, ndebug) ==
  LET new_size == blocks_to_hold_bytes(new_size_in_bytes)
      block == block_from_ptr(ptr)
      prev == Get(m, block, off_prev)
      next == Get(m, block, off_next)
      current_size == size_in_blocks(m, block)
  IN
  IF Lt(new_size, Sub(current_size, Unsigned(1)))
  THEN \* shrink the block
       IF ~InArena(next) THEN Undefined(Run(m))
       ELSE IF is_free(m, next)
       THEN LET r1 == unfree(Run(m), next)
                r2 == split_head(r1, block, new_size)
                tail == r2.ret
                r3 == join(r2, tail, next, ndebug)
                r4 == free_block(r3, tail, ndebug)
            IN  Returning(r4, ptr_from_block(block))
       ELSE IF ~InArena(prev) THEN Undefined(Run(m))
       ELSE IF is_free(m, prev)
       THEN IF ~IsSmall(new_size) THEN Undefined(Run(m))
            ELSE LET tail == next - ToNat(new_size)
                     r1 == memmove(Run(m), ptr_from_block(tail), ptr,
                                   new_size_in_bytes)
                     r2 == split_tail(r1, block, new_size)
                     r3 == join(r2, prev, block, ndebug)
                 IN  IF InArena(tail) THEN Returning(r3, ptr_from_block(tail))
                     ELSE Undefined(Run(m))
       ELSE LET r1 == split_head(Run(m), block, new_size)
                r2 == free_block(r1, r1.ret, ndebug)
            IN  Returning(r2, ptr_from_block(block))
  ELSE IF Lt(current_size, new_size)
  THEN realloc_grow(m, ptr, new_size, ndebug)
  ELSE \* keep the existing block
       Returning(Run(m), ptr)

\* a realloc that hands back the pointer it was given whenever it succeeds
realloc_returns_ptr(m, ptr, new_size_in_bytes, ndebug) ==
  IF ptr = nullptr THEN malloc(m, new_size_in_bytes)
  ELSE IF new_size_in_bytes = SizeT(0) THEN free(m, ptr, ndebug)
  ELSE LET r == realloc_block(m, ptr, new_size_in_bytes, ndebug)
       IN  IF r.st = "ok" /\ r.ret # nullptr THEN Returning(r, ptr) ELSE r

\* a realloc that looks for another block also when the block it was given
\* is large enough
realloc_always_moves(m, ptr, new_size_in_bytes, ndebug) ==
  IF ptr = nullptr THEN malloc(m, new_size_in_bytes)
  ELSE IF new_size_in_bytes = SizeT(0) THEN free(m, ptr, ndebug)
  ELSE LET new_size == blocks_to_hold_bytes(new_size_in_bytes)
           current_size == size_in_blocks(m, block_from_ptr(ptr))
       IN  IF Lt(new_size, Sub(current_size, Unsigned(1)))
           THEN realloc_block(m, ptr, new_size_in_bytes, ndebug)
           ELSE realloc_grow(m, ptr, new_size, ndebug)

\* a realloc that returns null for a size of 0 and keeps the block
realloc_zero_keeps(m, ptr, new_size_in_bytes, ndebug) ==
  IF ptr = nullptr THEN malloc(m, new_size_in_bytes)
  ELSE IF new_size_in_bytes = SizeT(0) THEN Run(m)
  ELSE realloc_block(m, ptr, new_size_in_bytes, ndebug)

\* a realloc that refuses a null pointer
realloc_null_refuses(m, ptr, new_size_in_bytes, ndebug) ==
  IF ptr = nullptr THEN Run(m)
  ELSE IF new_size_in_bytes = SizeT(0) THEN free(m, ptr, ndebug)
  ELSE realloc_block(m, ptr, new_size_in_bytes, ndebug)

\* Umm::realloc
realloc(m, ptr, new_size_in_bytes, ndebug) ==
  IF ptr = nullptr THEN malloc(m, new_size_in_bytes)
  ELSE IF new_size_in_bytes = SizeT(0) THEN free(m, ptr, ndebug)
  ELSE realloc_block(m, ptr, new_size_in_bytes, ndebug)

(***************************************************************************)
(* The program: one Umm over ArenaCells cells and the caller that holds    *)
(* the pointers it was given.                                              *)
(***************************************************************************)
VARIABLES
  storage_,  \* the bytes of the arena (SizedUmm::storage_, Umm::blocks_)
  live,      \* the caller's pointers: a bag of [ptr, len] as requested
  last,      \* the last call: [op, ptr, size, ret]
  status,    \* "ok", or how the last call ended the run
  after      \* calls made from the first request whose cell count wrapped on

vars == <<storage_, live, last, status, after>>

\* the largest request that needs k cells
MaxBytesFor(k) == k * block_size - block_overhead

\* requests whose cell count does not wrap: 0 bytes, 1..MaxCells cells, and
\* as many bytes as the whole arena has
InRangeSizes ==
  {SizeT(0), SizeT(Bytes)} \cup {SizeT(MaxBytesFor(k)) : k \in 1..MaxCells}

\* SIZE_MAX: size + 11 wraps to 10, i.e. 1 cell
SizeMax == <<65535, 65535, 65535, 65535>>
\* 2^35 - 4: (size + 11) / 8 = 2^32, which narrows to 0 cells
SizeNarrowsToZero == <<0, 7, 65535, 65532>>

WideSizes == {SizeMax, SizeNarrowsToZero}

\* the cell count of the request is not ceil((bytes + 4) / 8): the sum wrapped
\* in size_t or the quotient lost bits in the conversion to unsigned
Wraps(bytes) ==
  LET sum == Add(Add(bytes, SizeT(block_overhead)), SizeT(block_size - 1))
      quotient == Div(sum, block_size)
  IN  Lt(sum, bytes) \/ Widen(Narrow(quotient, UnsignedLimbs), SizeLimbs) # quotient

Sizes == InRangeSizes \cup WideSizes

\* contents of the storage before init(): uninitialized bytes
Garbage == {255}

\* the bytes a caller stores are its input: byte i of a block filled with
\* seed is Pattern(seed, i), a sequence that tells the offsets apart as the
\* generated sequence of the test does
Seeds == {129}
Pattern(seed, i) == (seed + i) % 256

\* BlumBlumShub::fill(dst, length, seed) by the caller that got dst for a
\* request of length bytes; a caller does not fill a request that no arena
\* can hold
fill(m, dst, length, seed) ==
  IF IsSmall(length) /\ dst + ToNat(length) <= Bytes
  THEN [a \in 0..(Bytes - 1) |->
          IF a >= dst /\ a < dst + ToNat(length)
          THEN Pattern(seed, a - dst) ELSE m[a]]
  ELSE m

Call(op, ptr, size, ret) == [op |-> op, ptr |-> ptr, size |-> size, ret |-> ret]

Entry(ptr, len) == [ptr |-> ptr, len |-> len]

One(e) == SetToBag({e})

Init ==
  /\ storage_ \in {init([a \in 0..(Bytes - 1) |-> g]) : g \in Garbage}
  /\ live = EmptyBag
  /\ last = Call("init", nullptr, SizeT(0), nullptr)
  /\ status = "ok"
  /\ after = 0

\* the program is running and the caller has calls left to make
Running == status = "ok" /\ after < MaxAfter

\* the caller has room for one more pointer
Room == BagCardinality(live) < MaxLive

Counted(size) == IF after > 0 \/ Wraps(size) THEN after + 1 ELSE 0

\* what a call that ended as run record r leaves behind; the caller fills
\* the block it got
Ends(r, size, seed) ==
  /\ after' = Counted(size)
  /\ status' = r.st
  /\ storage_' = IF r.st # "ok" THEN storage_
                 ELSE IF r.ret = nullptr THEN r.m
                 ELSE fill(r.m, r.ret, size, seed)

\* umm.init(): every pointer handed out before is gone
InitCall ==
  /\ Running
  /\ storage_' = init(storage_)
  /\ live' = EmptyBag
  /\ last' = Call("init", nullptr, SizeT(0), nullptr)
  /\ after' = Counted(SizeT(0))
  /\ UNCHANGED status

\* MallocTest::malloc(size, seed): umm.malloc(size), then fill
Malloc(size, seed) ==
  /\ Running
  /\ Room
  /\ \E r \in {malloc(storage_, size)} :
       /\ Ends(r, size, seed)
       /\ live' = IF r.st = "ok" /\ r.ret # nullptr
                  THEN live (+) One(Entry(r.ret, size)) ELSE live
       /\ last' = Call("malloc", nullptr, size, r.ret)

\* umm.free(e.ptr) for a pointer the caller holds
Free(e) ==
  /\ Running
  /\ \E r \in {free(storage_, e.ptr, ndebug) : ndebug \in BOOLEAN} :
       /\ Ends(r, SizeT(0), 0)
       /\ live' = IF r.st = "ok" THEN live (-) One(e) ELSE live
       /\ last' = Call("free", e.ptr, SizeT(0), nullptr)

\* umm.free(nullptr)
FreeNull ==
  /\ Running
  /\ \E r \in {free(storage_, nullptr, TRUE)} : Ends(r, SizeT(0), 0)
  /\ last' = Call("free", nullptr, SizeT(0), nullptr)
  /\ UNCHANGED live

\* MallocTest::realloc(e.ptr, size, seed) for a pointer the caller holds
Realloc(e, size, seed) ==
  /\ Running
  /\ \E r \in {realloc(storage_, e.ptr, size, ndebug) : ndebug \in BOOLEAN} :
       /\ Ends(r, size, seed)
       /\ live' = IF r.st # "ok" THEN live
                  ELSE IF size = SizeT(0) THEN live (-) One(e)
                  ELSE IF r.ret # nullptr
                  THEN (live (-) One(e)) (+) One(Entry(r.ret, size))
                  ELSE live
       /\ last' = Call("realloc", e.ptr, size, r.ret)

\* MallocTest::realloc(nullptr, size, seed)
ReallocNull(size, seed) ==
  /\ Running
  /\ Room
  /\ \E r \in {realloc(storage_, nullptr, size, TRUE)} :
       /\ Ends(r, size, seed)
       /\ live' = IF r.st = "ok" /\ r.ret # nullptr
                  THEN live (+) One(Entry(r.ret, size)) ELSE live
       /\ last' = Call("realloc", nullptr, size, r.ret)

Next ==
  \/ InitCall
  \/ \E size \in Sizes, seed \in Seeds : Malloc(size, seed)
  \/ \E e \in BagToSet(live) : Free(e)
  \/ FreeNull
  \/ \E e \in BagToSet(live), size \in Sizes, seed \in Seeds : Realloc(e, size, seed)
  \/ \E size \in Sizes, seed \in Seeds : ReallocNull(size, seed)

Spec == Init /\ [][Next]_vars

\* the same program with a caller whose requests never wrap the cell count
NextInRange == Next /\ ~Wraps(last'.size)

SpecInRange == Init /\ [][NextInRange]_vars

(***************************************************************************)
(* The two lists as a reader of the storage sees them.                     *)
(***************************************************************************)
\* the cells met by following next from cell b, up to the last block; a walk
\* of more than block_count_ cells has met a cell twice
RECURSIVE walk(_, _, _)
walk(m, b, fuel) ==
  IF ~InArena(b) \/ fuel = 0 THEN <<>>
  ELSE IF is_last_block(m, b) THEN <<b>>
  ELSE <<b>> \o walk(m, Get(m, b, off_next), fuel - 1)

PhysicalWalk(m) == walk(m, 0, block_count_ + 1)

\* the cells met by following next_free from cell b, until cell 0
RECURSIVE free_walk(_, _, _)
free_walk(m, b, fuel) ==
  IF ~InArena(b) \/ fuel = 0 \/ b = 0 THEN <<>>
  ELSE <<b>> \o free_walk(m, Get(m, b, off_next_free), fuel - 1)

FreeWalk(m) == free_walk(m, Get(m, 0, off_next_free), block_count_ + 1)

\* the free-list walk comes back to cell 0
FreeWalkEnds(m) ==
  LET f == FreeWalk(m)
  IN  IF f = <<>> THEN Get(m, 0, off_next_free) = 0
      ELSE Len(f) <= block_count_ /\ Get(m, f[Len(f)], off_next_free) = 0

Range(s) == {s[i] : i \in 1..Len(s)}

last_index == block_count_ - 1

\* the blocks of the physical walk that are not sentinels
Blocks(m) == Range(PhysicalWalk(m)) \ {0, last_index}

\* next - index, the number of cells of block b
CellsOf(m, b) == Get(m, b, off_next) - b

RECURSIVE SumCells(_, _)
SumCells(m, bs) ==
  IF bs = {} THEN 0
  ELSE LET b == CHOOSE x \in bs : TRUE
       IN  CellsOf(m, b) + SumCells(m, bs \ {b})

prev_masked(m, b) == BitAnd(Get(m, b, off_prev), free_mask)

(***************************************************************************)
(* Umm::iterator: a position p_ in the storage, or how reading it ended.   *)
(***************************************************************************)
At(p) == [st |-> "ok", p |-> p]

\* iterator::advance_past_free_blocks; a loop that has met more free cells
\* than the arena has never ends
RECURSIVE advance_past_free_blocks(_, _, _)
advance_past_free_blocks(m, p, fuel) ==
  IF ~InArena(p) THEN [st |-> "undefined", p |-> p]
  ELSE IF ~is_free(m, p) THEN At(p)
  ELSE IF fuel = 0 THEN [st |-> "hung", p |-> p]
  ELSE advance_past_free_blocks(m, Get(m, p, off_next), fuel - 1)

\* Umm::begin: iterator(Umm &heap)
begin(m) == advance_past_free_blocks(m, Get(m, 0, off_next), block_count_)

\* Umm::end: the position of the last cell
end == block_count_ - 1

\* iterator::operator++(): the position after ++it
pre_increment(m, p) ==
  IF ~InArena(p) THEN [st |-> "undefined", p |-> p]
  ELSE advance_past_free_blocks(m, Get(m, p, off_next), block_count_)

\* iterator::operator++(int): the position after it++; the free blocks are
\* skipped in the copy tmp that is returned, which stands at the old
\* position, a used block
post_increment(m, p) ==
  IF ~InArena(p) THEN [st |-> "undefined", p |-> p]
  ELSE At(Get(m, p, off_next))

\* the positions of for (it = begin(); it != end(); ++it or it++), and -1
\* for a loop that does not come to end()
RECURSIVE positions(_, _, _, _)
positions(m, it, postfix, fuel) ==
  IF it.st # "ok" \/ fuel = 0 THEN <<-1>>
  ELSE IF it.p = end THEN <<>>
  ELSE <<it.p>> \o positions(m, IF postfix THEN post_increment(m, it.p)
                                 ELSE pre_increment(m, it.p),
                             postfix, fuel - 1)

iterate(m, postfix) == positions(m, begin(m), postfix, block_count_)

(***************************************************************************)
(* Properties.                                                             *)
(***************************************************************************)
\* C1: after init() and after every public call the physical list is
\* symmetrically linked: every block b reachable from cell 0, the sentinels
\* excepted, has blocks[b.prev & 0x7fff].next = b and
\* blocks[b.next].prev & 0x7fff = b.
PhysicalLinksSymmetric ==
  \A b \in Blocks(storage_) :
    /\ InArena(prev_masked(storage_, b))
    /\ Get(storage_, prev_masked(storage_, b), off_next) = b
    /\ InArena(Get(storage_, b, off_next))
    /\ prev_masked(storage_, Get(storage_, b, off_next)) = b

\* C2: after every public call, following next from cell 0 visits strictly
\* increasing cell indices and ends at cell N-1, and the sizes of the
\* non-sentinel blocks visited add up to N - 2.
WalkPartitionsArena ==
  LET w == PhysicalWalk(storage_)
  IN  /\ w # <<>>
      /\ \A i \in 1..(Len(w) - 1) : w[i] < w[i + 1]
      /\ w[Len(w)] = last_index
      /\ SumCells(storage_, Blocks(storage_)) = block_count_ - 2

\* C3: after every public call no two physically adjacent non-sentinel
\* blocks are both free.
NoAdjacentFreeBlocks ==
  \A b \in Blocks(storage_) :
    LET next == Get(storage_, b, off_next)
    IN  ~( /\ is_free(storage_, b)
           /\ next \in Blocks(storage_)
           /\ next # b
           /\ is_free(storage_, next) )

\* C4: after every public call the blocks met by walking next_free from
\* blocks[0].next_free back to cell 0 are exactly the blocks of the physical
\* walk whose free flag is set: same members, same count, each met once.
FreeListIsFlaggedBlocks ==
  LET f == FreeWalk(storage_)
      flagged == {b \in Range(PhysicalWalk(storage_)) : is_free(storage_, b)}
  IN  /\ FreeWalkEnds(storage_)
      /\ Range(f) = flagged
      /\ Len(f) = Cardinality(flagged)

\* C5: in every reachable state blocks[0].next = 1, blocks[0].prev = 0 and
\* blocks[N-1].next = 0, neither sentinel has its free flag set or is on the
\* free list, and no pointer returned is the payload of cell 0 or cell N-1.
SentinelsFixed ==
  /\ Get(storage_, 0, off_next) = 1
  /\ Get(storage_, 0, off_prev) = 0
  /\ Get(storage_, last_index, off_next) = 0
  /\ ~is_free(storage_, 0)
  /\ ~is_free(storage_, last_index)
  /\ Range(FreeWalk(storage_)) \cap {0, last_index} = {}
  /\ last.ret \notin {ptr_from_block(0), ptr_from_block(last_index)}

\* a call of malloc or realloc has just returned a pointer
Returned ==
  /\ status = "ok"
  /\ last.op \in {"malloc", "realloc"}
  /\ last.ret # nullptr

\* C6: for every size_t value of the size argument, the block that owns a
\* pointer returned by malloc(size) or realloc(ptr, size) has a payload
\* capacity of 8 * size_in_blocks - 4 bytes, which is at least size.
CapacityHoldsSize ==
  Returned =>
    LET cells == CellsOf(storage_, block_from_ptr(last.ret))
    IN  /\ IsSmall(last.size)
        /\ ToNat(last.size) <= block_size * cells - block_overhead

\* ceil((size + 4) / 8) for a size that is a small number
CellsFor(size) == (ToNat(size) + block_overhead + block_size - 1) \div block_size

\* C7: in any reachable state and for a size > 0 that needs k <= N cells,
\* a malloc(size) that returns gives non-null if and only if some free block
\* of the physical walk has at least k cells.
MallocSucceedsIffFits ==
  \A size \in {s \in InRangeSizes : s # SizeT(0) /\ CellsFor(s) <= block_count_} :
    LET r == malloc(storage_, size)
    IN  r.st = "ok" =>
          ( r.ret # nullptr <=>
              \E b \in Blocks(storage_) :
                is_free(storage_, b) /\ CellsOf(storage_, b) >= CellsFor(size) )

\* C8: whenever malloc returns null, every header field of every cell and
\* every payload byte is what it was before the call.
MallocNullChangesNothing ==
  [][ (last'.op = "malloc" /\ status' = "ok" /\ last'.ret = nullptr)
        => (storage_' = storage_ /\ live' = live) ]_vars

\* C8 happens: a malloc of a positive size has just returned null
MallocReturnedNull ==
  /\ status = "ok"
  /\ last.op = "malloc"
  /\ last.size # SizeT(0)
  /\ last.ret = nullptr

\* C9: when realloc(ptr, n) with ptr non-null and n > 0 returns null, the
\* original block and every other cell are what they were before the call:
\* no header field and no payload byte has changed.
ReallocNullChangesNothing ==
  [][ ( /\ last'.op = "realloc" /\ last'.ptr # nullptr
        /\ last'.size # SizeT(0)
        /\ status' = "ok" /\ last'.ret = nullptr )
        => (storage_' = storage_ /\ live' = live) ]_vars

\* C9 happens: a realloc of a held pointer to a positive size has just
\* returned null
ReallocReturnedNull ==
  /\ status = "ok"
  /\ last.op = "realloc"
  /\ last.ptr # nullptr
  /\ last.size # SizeT(0)
  /\ last.ret = nullptr

\* live allocation q is in m1 what it was in m0: same size in cells, free
\* flag clear, linked in the physical list, same payload bytes
Untouched(m0, m1, q) ==
  LET b == block_from_ptr(q.ptr)
  IN  /\ Get(m1, b, off_next) = Get(m0, b, off_next)
      /\ ~is_free(m1, b)
      /\ b \in Blocks(m1)
      /\ \A a \in 0..(Bytes - 1) :
           (a >= q.ptr /\ a < block_size * Get(m0, b, off_next)) => m1[a] = m0[a]

\* C10: an operation applied to one pointer (malloc, free(p), realloc(p, s))
\* leaves every other live allocation q untouched.
OthersUntouched ==
  [][ (status' = "ok" /\ last'.op \in {"malloc", "free", "realloc"})
        => \A q \in BagToSet(live) :
             q.ptr # last'.ptr => Untouched(storage_, storage_', q) ]_vars

\* the payload capacity in bytes of the block that owns pointer ptr
capacity(m, ptr) ==
  block_size * CellsOf(m, block_from_ptr(ptr)) - block_overhead

\* the first min(size, n) bytes at q in m1 are the first bytes at p in m0
SameBytes(m0, p, m1, q, size, n) ==
  \A i \in 0..(n - 1) :
    (IsSmall(size) => i < ToNat(size)) =>
      /\ p + i \in DOMAIN m0
      /\ q + i \in DOMAIN m1
      /\ m1[q + i] = m0[p + i]

\* every realloc of a held pointer to one of the sizes that returns a
\* pointer returns the bytes that were at the held pointer
ReallocKeepsContents(sizes) ==
  status = "ok" =>
    \A e \in BagToSet(live), size \in sizes \ {SizeT(0)}, ndebug \in BOOLEAN :
      LET r == realloc(storage_, e.ptr, size, ndebug)
      IN  (r.st = "ok" /\ r.ret # nullptr) =>
            SameBytes(storage_, e.ptr, r.m, r.ret, size, capacity(storage_, e.ptr))

\* C11: on every realloc(p, s) with p non-null and s > 0 that returns a
\* pointer, the first min(s, old payload capacity) bytes at the returned
\* pointer are the bytes that were at p before the call, whichever path the
\* call takes (shrink in its three neighbour cases, keep, grow).
ReallocPreservesContents == ReallocKeepsContents(Sizes)

\* C11 for the requests whose cell count does not wrap
ReallocPreservesContentsInRange == ReallocKeepsContents(InRangeSizes)

\* the header fields that init() writes: all four of cells 0 and 1, prev and
\* next of cell N-1
InitFields ==
  {<<c, f>> : c \in {0, 1}, f \in {off_prev, off_next, off_prev_free, off_next_free}}
    \cup {<<last_index, f>> : f \in {off_prev, off_next}}

\* C12: once every outstanding allocation has been freed, in any order and
\* whatever calls produced them, the arena is one free block at cell 1 of
\* N - 2 cells, the free list holds that block only, and the header fields
\* of cells 0, 1 and N-1 are those that init() establishes.
AllFreedIsFresh ==
  (status = "ok" /\ live = EmptyBag) =>
    /\ PhysicalWalk(storage_) = <<0, 1, last_index>>
    /\ is_free(storage_, 1)
    /\ CellsOf(storage_, 1) = block_count_ - 2
    /\ FreeWalk(storage_) = <<1>>
    /\ FreeWalkEnds(storage_)
    /\ \A cf \in InitFields :
         Get(storage_, cf[1], cf[2]) = Get(init(storage_), cf[1], cf[2])

\* C13: for a non-null p, realloc(p, 0) returns null and leaves the state
\* that free(p) leaves from the same starting state: every byte of the
\* storage, so every header field and the order of the free list.
ReallocZeroIsFree ==
  [][ (last'.op = "realloc" /\ last'.ptr # nullptr /\ last'.size = SizeT(0))
        => \E ndebug \in BOOLEAN :
             \E f \in {free(storage_, last'.ptr, ndebug)} :
                 /\ status' = f.st
                 /\ f.st = "ok" => (last'.ret = nullptr /\ storage_' = f.m) ]_vars

\* C13 happens: a realloc of a held pointer to size 0 has returned and left
\* a free list of two blocks
ReallocatedToZero ==
  /\ status = "ok"
  /\ last.op = "realloc"
  /\ last.ptr # nullptr
  /\ last.size = SizeT(0)
  /\ Len(FreeWalk(storage_)) = 2

\* C14: for every n >= 0, realloc(nullptr, n) returns the pointer (or null)
\* and leaves the state that malloc(n) does from the same starting state;
\* realloc(nullptr, 0) returns null and changes nothing.
ReallocNullIsMalloc ==
  [][ (last'.op = "realloc" /\ last'.ptr = nullptr)
        => \E r \in {malloc(storage_, last'.size)} :
               /\ status' = r.st
               /\ r.st = "ok" =>
                    /\ last'.ret = r.ret
                    /\ \E seed \in Seeds :
                         storage_' = IF r.ret = nullptr THEN r.m
                                     ELSE fill(r.m, r.ret, last'.size, seed)
                    /\ last'.size = SizeT(0) =>
                         (last'.ret = nullptr /\ storage_' = storage_) ]_vars

\* C14 happens: a realloc of the null pointer has taken a block off the
\* free list while another pointer was held
ReallocatedFromNull ==
  /\ status = "ok"
  /\ last.op = "realloc"
  /\ last.ptr = nullptr
  /\ last.ret # nullptr
  /\ BagCardinality(live) = 2

\* the physical layout: the walk from cell 0, and the size and the free flag
\* of each block on it
Layout(m) ==
  LET w == PhysicalWalk(m)
  IN  [i \in 1..Len(w) |-> <<w[i], Get(m, w[i], off_next), is_free(m, w[i])>>]

\* the cells of the free blocks of the physical walk
FreeCells(m) ==
  SumCells(m, {b \in Blocks(m) : is_free(m, b)})

\* calculate_usage: 8 bytes for each cell of each free block of the walk
free_bytes(m) == block_size * FreeCells(m)

\* a malloc of one of the sizes that returns a pointer, then free of that
\* pointer: the free bytes are no fewer and the layout is what it was
MallocThenFreeRestores(sizes) ==
  status = "ok" =>
    \A size \in sizes, ndebug \in BOOLEAN :
      \E r \in {malloc(storage_, size)} :
        (r.st = "ok" /\ r.ret # nullptr) =>
          \E f \in {free(r.m, r.ret, ndebug)} :
            /\ f.st = "ok"
            /\ free_bytes(f.m) >= free_bytes(storage_)
            /\ Layout(f.m) = Layout(storage_)

\* C15: in any reachable state in which malloc(n) succeeds, free of the
\* returned pointer right away makes the free-byte total no less than it
\* was before the malloc and restores the physical layout: the same block
\* start indices, sizes and free flags (the free-list order may differ).
FreeUndoesMalloc == MallocThenFreeRestores(Sizes)

\* C15 for the requests whose cell count does not wrap
FreeUndoesMallocInRange == MallocThenFreeRestores(InRangeSizes)

\* ceil((size + 4) / 8) as a number: computed in one limb more than size_t
\* has, so that nothing wraps
cells_needed(size) ==
  LET w == SizeLimbs + 1
  IN  Div(Add(Add(Widen(size, w), FromNat(block_overhead, w)),
              FromNat(block_size - 1, w)), block_size)

\* the sizes at the limit of a fresh arena: 1 byte, the most that N - 2
\* cells hold, and one byte more
LimitSizes ==
  {SizeT(1), SizeT(MaxBytesFor(block_count_ - 2)),
   SizeT(MaxBytesFor(block_count_ - 2) + 1)}

\* on the arena as init() leaves it, malloc of each of the sizes returns a
\* pointer exactly when the size needs no more than N - 2 cells
FreshMallocFits(sizes) ==
  (status = "ok" /\ last.op = "init") =>
    \A size \in sizes \ {SizeT(0)} :
      \E r \in {malloc(storage_, size)} :
        /\ r.st = "ok"
        /\ r.ret # nullptr <=>
             Le(cells_needed(size), FromNat(block_count_ - 2, SizeLimbs + 1))

\* C16: on a freshly initialized arena of N >= 4 cells, malloc(size) with
\* size > 0 succeeds exactly when ceil((size + 4) / 8) <= N - 2: malloc(1)
\* and malloc(8 * (N - 2) - 4) succeed, malloc(8 * (N - 2) - 3) returns null.
FreshMallocSucceedsIffFits == FreshMallocFits(Sizes \cup LimitSizes)

\* C16 for the requests whose cell count does not wrap
FreshMallocSucceedsIffFitsInRange == FreshMallocFits(InRangeSizes \cup LimitSizes)

\* realloc(ptr, size) is a shrinking one: size > 0 needs k cells and
\* k < current - 1, as numbers
Shrinks(m, ptr, size) ==
  /\ ptr # nullptr
  /\ size # SizeT(0)
  /\ IsSmall(size)
  /\ CellsFor(size) < CellsOf(m, block_from_ptr(ptr)) - 1

\* C17: a shrinking realloc (k = cells_needed(new_size) < current - 1)
\* always succeeds, the cells of the free blocks become exactly current - k
\* more, and the returned block has exactly k cells, whether the next block
\* is free, only the previous one is, or neither.
ShrinkFreesTheDifference ==
  [][ (last'.op = "realloc" /\ Shrinks(storage_, last'.ptr, last'.size))
        => /\ status' = "ok"
           /\ last'.ret # nullptr
           /\ FreeCells(storage_') =
                FreeCells(storage_)
                  + CellsOf(storage_, block_from_ptr(last'.ptr)) - CellsFor(last'.size)
           /\ CellsOf(storage_', block_from_ptr(last'.ret)) = CellsFor(last'.size)
    ]_vars

\* C18: free(nullptr) is a no-op in every reachable state: no header field,
\* no free-list link and no payload byte changes.
FreeNullChangesNothing ==
  [][ (last'.op = "free" /\ last'.ptr = nullptr)
        => (storage_' = storage_ /\ live' = live /\ status' = status) ]_vars

\* C18 happens: free(nullptr) has returned while a pointer was held and a
\* block was free
FreedNull ==
  /\ status = "ok"
  /\ last.op = "free"
  /\ last.ptr = nullptr
  /\ live # EmptyBag
  /\ FreeWalk(storage_) # <<>>

\* the used blocks between the sentinels, in the order of the physical walk
UsedBlocks(m) ==
  LET IsUsed(b) == b \in Blocks(m) /\ ~is_free(m, b)
  IN  SelectSeq(PhysicalWalk(m), IsUsed)

Increasing(s) == \A i \in 1..(Len(s) - 1) : s[i] < s[i + 1]

\* the iterator advanced with one of the increment operators is at each
\* used block in turn, in increasing order, and at nothing else
YieldsUsedBlocks(postfix) ==
  status = "ok" =>
    /\ iterate(storage_, postfix) = UsedBlocks(storage_)
    /\ Increasing(iterate(storage_, postfix))

\* C19: walking the iterator from begin() until it equals end(), with
\* prefix ++it or with postfix it++, yields exactly the used non-sentinel
\* blocks in increasing index order: the iterator is never at a free block
\* or a sentinel, and skips no used block.
IterationYieldsUsedBlocks == YieldsUsedBlocks(FALSE) /\ YieldsUsedBlocks(TRUE)

\* C19 for the prefix operator alone
PrefixIterationYieldsUsedBlocks == YieldsUsedBlocks(FALSE)

\* the cells a request needs, as a number; a size that is not a small
\* number needs more cells than any block has
CellsWanted(size) == IF IsSmall(size) THEN CellsFor(size) ELSE Limb

\* the first block of the free list with at least k cells, -1 if none
FirstFit(m, k) ==
  LET f == FreeWalk(m)
      fits == {i \in 1..Len(f) : CellsOf(m, f[i]) >= k}
  IN  IF fits = {} THEN -1
      ELSE f[CHOOSE i \in fits : \A j \in fits : i <= j]

\* malloc of k cells took storage m0 to m1 and returned ret: it split the
\* tail off the first fit b, or took b whole
SplitOrWhole(m0, m1, ret, k) ==
  LET b == FirstFit(m0, k)
      size == CellsOf(m0, b)
      got == block_from_ptr(ret)
      IsNot(x) == x # b
  IN  /\ b # -1
      /\ ~is_free(m1, got)
      /\ IF size > k + 1
         THEN /\ got = Get(m0, b, off_next) - k
              /\ CellsOf(m1, got) = k
              /\ is_free(m1, b)
              /\ CellsOf(m1, b) = size - k
              /\ size - k >= 2
              /\ FreeWalk(m1) = FreeWalk(m0)
         ELSE /\ got = b
              /\ CellsOf(m1, b) = size
              /\ size \in {k, k + 1}
              /\ FreeWalk(m1) = SelectSeq(FreeWalk(m0), IsNot)

\* n more mallocs of the sizes, one after the other from storage m, the last
\* pointer returned being prev: each pointer returned is below the one
\* before and its block ends where that one's block starts
RECURSIVE Descends(_, _, _, _)
Descends(m, prev, n, sizes) ==
  \/ n = 0
  \/ \A size \in sizes \ {SizeT(0)} :
       \E r \in {malloc(m, size)} :
         r.st = "ok" =>
           IF r.ret = nullptr THEN Descends(r.m, prev, n - 1, sizes)
           ELSE /\ prev # nullptr =>
                     /\ r.ret < prev
                     /\ Get(r.m, block_from_ptr(r.ret), off_next) = block_from_ptr(prev)
                /\ Descends(r.m, r.ret, n - 1, sizes)

\* successive mallocs on the arena as init() leaves it
FreshMallocsDescend(sizes) ==
  (status = "ok" /\ last.op = "init") => Descends(storage_, nullptr, MaxCells, sizes)

\* a malloc step that returns a pointer splits or takes the first fit
MallocStepSplitsOrTakes ==
  (last'.op = "malloc" /\ status' = "ok" /\ last'.ret # nullptr)
    => SplitOrWhole(storage_, storage_', last'.ret, CellsWanted(last'.size))

\* C20: a successful malloc(size) of k = cells_needed(size) cells on the
\* first-fit block b returns the trailing k cells of b if size(b) > k + 1
\* (b stays free at its index and free-list position, k cells smaller, at
\* least 2 cells), and otherwise unlinks b and returns it whole, k or k + 1
\* cells; so successive mallocs on a fresh arena return strictly decreasing
\* addresses, each block the physical predecessor of the one before.
MallocSplitsTailOrTakesWhole ==
  [][MallocStepSplitsOrTakes]_vars /\ []FreshMallocsDescend(Sizes)

\* C20 for the requests whose cell count does not wrap
MallocSplitsTailOrTakesWholeInRange ==
  [][MallocStepSplitsOrTakes]_vars /\ []FreshMallocsDescend(InRangeSizes)

\* the cell count that a call with this size asks the search for
Requested(size) == blocks_to_hold_bytes(size)

\* block b is the first of the free list of m with at least k cells, every
\* block ahead of it having fewer; b = nullptr: every block has fewer
FirstOfAtLeast(m, b, k) ==
  LET f == FreeWalk(m)
  IN  IF b = nullptr THEN \A i \in 1..Len(f) : CellsOf(m, f[i]) < k
      ELSE \E i \in 1..Len(f) :
             /\ f[i] = b
             /\ CellsOf(m, b) >= k
             /\ \A j \in 1..(i - 1) : CellsOf(m, f[j]) < k

\* the blocks that are on both lists are in the same order on both
SameOrder(f0, f1) ==
  LET In0(x) == x \in Range(f0)
      In1(x) == x \in Range(f1)
  IN  SelectSeq(f0, In1) = SelectSeq(f1, In0)

\* every search that returns finds the first fit in free-list order
SearchFindsFirstFit ==
  status = "ok" =>
    \A k \in 0..block_count_ :
      \E r \in {find_first_free_block_of_size(storage_, Unsigned(k))} :
        r.st = "ok" => FirstOfAtLeast(storage_, r.b, k)

\* a step of malloc, or of realloc to more cells than the block has, that
\* returns: the cells it got are cells of the first fit (null: nothing
\* fits, nothing changes), and the free list is not reordered
SearchStepTakesFirstFit ==
  ( /\ status' = "ok"
    /\ last'.size # SizeT(0)
    /\ IsSmall(Widen(Requested(last'.size), SizeLimbs))
    /\ \/ last'.op = "malloc"
       \/ /\ last'.op = "realloc"
          /\ last'.ptr # nullptr
          /\ ToNat(Requested(last'.size)) > CellsOf(storage_, block_from_ptr(last'.ptr)) )
  => LET k == ToNat(Requested(last'.size))
         b == FirstFit(storage_, k)
     IN  /\ FirstOfAtLeast(storage_, IF b = -1 THEN nullptr ELSE b, k)
         /\ IF last'.ret = nullptr THEN b = -1 /\ storage_' = storage_
            ELSE /\ b # -1
                 /\ k >= 1 =>
                      block_from_ptr(last'.ret) \in b..(Get(storage_, b, off_next) - 1)
                 /\ last'.op = "realloc" => last'.ret = ptr_from_block(b)
                 /\ SameOrder(FreeWalk(storage_), FreeWalk(storage_'))

\* C21: the block chosen by malloc, and by the grow path of realloc, is the
\* first block in free-list order from blocks[0].next_free with at least
\* the requested number of cells; every block ahead of it is smaller than
\* the request; a search, hit or miss, does not reorder the free list.
FirstFitInListOrder ==
  [][SearchStepTakesFirstFit]_vars /\ []SearchFindsFirstFit

\* free(p) took storage m0 to m1: what became of the free list
FreeUpdatesList(m0, m1, p) ==
  LET b == block_from_ptr(p)
      prev == prev_masked(m0, b)
      next == Get(m0, b, off_next)
      prev_free == InArena(prev) /\ is_free(m0, prev)
      next_free == InArena(next) /\ is_free(m0, next)
      end_of_b == IF next_free THEN Get(m0, next, off_next) ELSE next
      IsNotNext(x) == x # next
      others == IF next_free THEN SelectSeq(FreeWalk(m0), IsNotNext)
                ELSE FreeWalk(m0)
      neighbours == (IF prev_free THEN 1 ELSE 0) + (IF next_free THEN 1 ELSE 0)
  IN  /\ IF prev_free
         THEN /\ is_free(m1, prev)
              /\ Get(m1, prev, off_next) = end_of_b
              /\ FreeWalk(m1) = others
         ELSE /\ is_free(m1, b)
              /\ Get(m1, b, off_next) = end_of_b
              /\ Get(m1, 0, off_next_free) = b
              /\ FreeWalk(m1) = <<b>> \o others
      /\ Len(FreeWalk(m1)) = Len(FreeWalk(m0)) + 1 - neighbours

\* C22: free(p) on live block b: if the physical predecessor of b is free,
\* the merged block keeps the predecessor's index and free-list position
\* and no node is added (a free successor is absorbed and its node
\* removed); otherwise b, merged with its successor if that was free (whose
\* node is removed), becomes the first entry of the free list, the other
\* entries keeping their order; the number of free blocks changes by -1, 0
\* or +1 when two, one or no neighbour was free.
FreeMergesOrPushes ==
  [][ (last'.op = "free" /\ last'.ptr # nullptr)
        => /\ status' = "ok"
           /\ FreeUpdatesList(storage_, storage_', last'.ptr) ]_vars

\* a shrinking realloc(p, size) took storage m0 to m1 and returned ret
ShrinkReturns(m0, m1, p, size, ret) ==
  LET b == block_from_ptr(p)
      k == CellsFor(size)
      prev == prev_masked(m0, b)
      next == Get(m0, b, off_next)
      prev_free == InArena(prev) /\ is_free(m0, prev)
      next_free == InArena(next) /\ is_free(m0, next)
  IN  IF next_free \/ ~prev_free
      THEN ret = p
      ELSE /\ ret # p
           /\ ret = ptr_from_block(next - k)
           /\ block_from_ptr(ret) \in (b + 1)..(next - 1)
           /\ b \notin Range(PhysicalWalk(m1))
           /\ is_free(m1, prev)
           /\ Get(m1, prev, off_next) = next - k
           /\ FreeWalk(m1) = FreeWalk(m0)

\* C23: a shrinking realloc(p, s) returns p when the successor of p's block
\* is free or when neither neighbour is free; when only the predecessor is
\* free it returns another pointer, the payload of the cell at index
\* old_next - k inside the old block, and the old start index is no longer
\* a block start: the leading remainder is absorbed into the free
\* predecessor, which keeps its free-list position.
ShrinkReturnsHeadOrTail ==
  [][ ( /\ last'.op = "realloc"
        /\ status' = "ok"
        /\ Shrinks(storage_, last'.ptr, last'.size) )
        => ShrinkReturns(storage_, storage_', last'.ptr, last'.size, last'.ret) ]_vars

\* C23 happens: a realloc to 1 cell has returned another pointer than it
\* was given, the payload of a 1-cell block that follows a free block
ShrunkIntoTail ==
  /\ status = "ok"
  /\ last.op = "realloc"
  /\ last.ptr # nullptr
  /\ last.ret \notin {nullptr, last.ptr}
  /\ IsSmall(last.size)
  /\ CellsFor(last.size) = 1
  /\ CellsOf(storage_, block_from_ptr(last.ret)) = 1
  /\ is_free(storage_, prev_masked(storage_, block_from_ptr(last.ret)))

\* realloc(ptr, size) asks for as many cells as the block has, or one fewer
Keeps(m, ptr, size) ==
  /\ ptr # nullptr
  /\ size # SizeT(0)
  /\ IsSmall(size)
  /\ CellsFor(size) \in {CellsOf(m, block_from_ptr(ptr)) - 1,
                         CellsOf(m, block_from_ptr(ptr))}

\* C24: when current - 1 <= k <= current (k = cells_needed(new_size), p
\* non-null, new_size > 0), realloc(p, new_size) returns p itself and
\* changes no header field, free-list link or payload byte.
KeepChangesNothing ==
  [][ (last'.op = "realloc" /\ Keeps(storage_, last'.ptr, last'.size))
        => \A r \in {realloc(storage_, last'.ptr, last'.size, ndebug) :
                        ndebug \in BOOLEAN} :
             /\ status' = "ok"
             /\ last'.ret = last'.ptr
             /\ r.m = storage_
             /\ \E seed \in Seeds :
                  storage_' = fill(storage_, last'.ptr, last'.size, seed) ]_vars

\* C24 happens: a realloc to one cell fewer than the block has returned
KeptOneCellMore ==
  /\ status = "ok"
  /\ last.op = "realloc"
  /\ last.ptr # nullptr
  /\ last.ret = last.ptr
  /\ IsSmall(last.size)
  /\ last.size # SizeT(0)
  /\ CellsFor(last.size) = CellsOf(storage_, block_from_ptr(last.ptr)) - 1

\* realloc(ptr, size) asks for more cells than the block has
Grows(m, ptr, size) ==
  /\ ptr # nullptr
  /\ IsSmall(size)
  /\ CellsFor(size) > CellsOf(m, block_from_ptr(ptr))

\* cell c lies in a free block of m whose physical neighbours are not free
InCoalescedFreeBlock(m, c) ==
  \E f \in Blocks(m) :
    /\ is_free(m, f)
    /\ f <= c /\ c < Get(m, f, off_next)
    /\ ~is_free(m, prev_masked(m, f))
    /\ ~is_free(m, Get(m, f, off_next))

\* a growing realloc(p, size) took storage m0 to m1 and returned ret
GrowMoves(m0, m1, p, size, ret) ==
  LET old == block_from_ptr(p)
      new == FirstFit(m0, CellsFor(size))
  IN  /\ ret # p
      /\ new # -1
      /\ ret = ptr_from_block(new)
      /\ ~is_free(m1, new)
      /\ Get(m1, new, off_next) = Get(m0, new, off_next)
      /\ InCoalescedFreeBlock(m1, old)
      /\ FreeCells(m1) = FreeCells(m0) + CellsOf(m0, old) - CellsOf(m0, new)
      /\ FreeCells(m1) < FreeCells(m0)

\* C25: a growing realloc (k > current) that succeeds never extends the
\* block in place: the pointer it returns differs from p and is the payload
\* of the first-fit free block, taken whole without splitting (it may have
\* more than k + 1 cells); the old block is then freed with full
\* coalescing, also when the new block is next to the old one; the cells of
\* the free blocks become strictly fewer.
GrowTakesWholeBlock ==
  [][ ( /\ last'.op = "realloc"
        /\ status' = "ok"
        /\ last'.ret # nullptr
        /\ Grows(storage_, last'.ptr, last'.size) )
        => GrowMoves(storage_, storage_', last'.ptr, last'.size, last'.ret) ]_vars

\* C26: in every reachable state the free list is a circular doubly-linked
\* list through cell 0: every node f on it, cell 0 included, has
\* blocks[f.next_free].prev_free = f and blocks[f.prev_free].next_free = f;
\* when no block is free, blocks[0].next_free = blocks[0].prev_free = 0.
FreeListDoublyLinked ==
  status = "ok" =>
    /\ FreeWalkEnds(storage_)
    /\ \A f \in Range(FreeWalk(storage_)) \cup {0} :
         /\ InArena(Get(storage_, f, off_next_free))
         /\ InArena(Get(storage_, f, off_prev_free))
         /\ Get(storage_, Get(storage_, f, off_next_free), off_prev_free) = f
         /\ Get(storage_, Get(storage_, f, off_prev_free), off_next_free) = f
    /\ (\A b \in Blocks(storage_) : ~is_free(storage_, b)) =>
         /\ Get(storage_, 0, off_next_free) = 0
         /\ Get(storage_, 0, off_prev_free) = 0

(***************************************************************************)
(* C27: init() forgets the past.                                           *)
(***************************************************************************)
\* the cells whose headers the allocator can come to from cell 0 and from
\* the blocks the caller holds: through next and prev of any cell, and
\* through next_free and prev_free of cell 0 and of cells flagged free
Linked(m, c) ==
  {Get(m, c, off_next), prev_masked(m, c)}
    \cup (IF c = 0 \/ is_free(m, c)
          THEN {Get(m, c, off_next_free), Get(m, c, off_prev_free)} ELSE {})

Grown(m, cells) ==
  cells \cup {d \in UNION {Linked(m, c) : c \in cells} : InArena(d)}

RECURSIVE Reach(_, _, _)
Reach(m, cells, fuel) ==
  IF fuel = 0 \/ Grown(m, cells) = cells THEN cells
  ELSE Reach(m, Grown(m, cells), fuel - 1)

Held(lv) == {block_from_ptr(e.ptr) : e \in BagToSet(lv)}

\* prev and next of the cells, prev_free and next_free of cell 0 and of
\* those flagged free
FieldBytes(m, cells) ==
  {c * block_size + off + i :
     c \in cells, off \in {off_prev, off_next}, i \in {0, 1}}
    \cup {c * block_size + off + i :
            c \in {d \in cells : d = 0 \/ is_free(m, d)},
            off \in {off_prev_free, off_next_free}, i \in {0, 1}}

\* the bytes of the storage that are header fields of a cell the allocator
\* can come to
HeaderBytes(m, lv) ==
  FieldBytes(m, Reach(m, {0} \cup Held(lv), block_count_))

\* the storage with every byte that is not a header field put back to the
\* byte g of an arena that was never used
Scrub(m, lv, g) ==
  CHOOSE x \in {[a \in 0..(Bytes - 1) |-> IF a \in hb THEN m[a] ELSE g] :
                  hb \in {HeaderBytes(m, lv)}} : TRUE

\* the arena after init() on storage that was never used
NeverUsed(g) == init([a \in 0..(Bytes - 1) |-> g])

\* run record r is what this step did: the same end, the same pointer and
\* the same header fields
SameResult(r, g) ==
  /\ r.st = status'
  /\ r.st = "ok" =>
       /\ r.ret = last'.ret
       /\ \E seed \in Seeds :
            Scrub(IF r.ret = nullptr THEN r.m
                  ELSE fill(r.m, r.ret, last'.size, seed), live', g)
              = Scrub(storage_', live', g)

\* the two lists are as calls that do not wrap leave them, and the caller
\* holds pointers to distinct used blocks that hold what it wrote
Sound ==
  /\ PhysicalLinksSymmetric
  /\ WalkPartitionsArena
  /\ NoAdjacentFreeBlocks
  /\ FreeListIsFlaggedBlocks
  /\ FreeListDoublyLinked
  /\ Get(storage_, 0, off_next) = 1
  /\ Get(storage_, 0, off_prev) = 0
  /\ Get(storage_, last_index, off_next) = 0
  /\ ~is_free(storage_, last_index)
  /\ \A e \in BagToSet(live) :
       /\ live[e] = 1
       /\ block_from_ptr(e.ptr) \in Blocks(storage_)
       /\ ptr_from_block(block_from_ptr(e.ptr)) = e.ptr
       /\ ~is_free(storage_, block_from_ptr(e.ptr))
       /\ IsSmall(e.len)
       /\ ToNat(e.len) <= capacity(storage_, e.ptr)
  /\ \A e1, e2 \in BagToSet(live) : e1.ptr = e2.ptr => e1 = e2

\* the call of this step, made on the scrubbed storage by the same build,
\* gives the result it gave on the storage with its stale bytes
StaleBytesUnread ==
  \A g \in Garbage :
    \E x \in {Scrub(storage_, live, g)} :
      /\ last'.op = "malloc" =>
           \E r \in {malloc(x, last'.size)} : SameResult(r, g)
      /\ last'.op = "free" =>
           \A ndebug \in BOOLEAN :
             (\E a \in {free(storage_, last'.ptr, ndebug)} :
                a.st = status' /\ (a.st = "ok" => a.m = storage_'))
             => \E r \in {free(x, last'.ptr, ndebug)} : SameResult(r, g)
      /\ last'.op = "realloc" =>
           \A ndebug \in BOOLEAN :
             (\E a \in {realloc(storage_, last'.ptr, last'.size, ndebug)} :
                a.st = status' /\ (a.st = "ok" => a.ret = last'.ret))
             => \E r \in {realloc(x, last'.ptr, last'.size, ndebug)} :
                  SameResult(r, g)

\* init() leaves the header fields of cells 0, 1 and N-1 of a never-used
\* arena after init(), and no other header field
InitForgets ==
  last'.op = "init" =>
    /\ \A g \in Garbage :
         /\ \A cf \in InitFields :
              Get(storage_', cf[1], cf[2]) = Get(NeverUsed(g), cf[1], cf[2])
         /\ Scrub(storage_', live', g) = NeverUsed(g)
    /\ PhysicalWalk(storage_') = <<0, 1, last_index>>
    /\ is_free(storage_', 1)
    /\ FreeWalk(storage_') = <<1>>
    /\ FreeWalkEnds(storage_')
    /\ Sound'

\* the calls a caller that holds the pointers ptrs can make
Replayed(ptrs) ==
  {Call("malloc", nullptr, size, nullptr) : size \in Sizes}
    \cup {Call("free", p, SizeT(0), nullptr) : p \in ptrs}
    \cup {Call("realloc", p, size, nullptr) : p \in ptrs \cup {nullptr}, size \in Sizes}

\* the call c on storage m, then the caller's fill of what it got
Made(m, c, ndebug, seed) ==
  CHOOSE e \in {IF r.st = "ok" /\ r.ret # nullptr
                THEN [r EXCEPT !.m = fill(r.m, r.ret, c.size, seed)] ELSE r :
                  r \in {IF c.op = "malloc" THEN malloc(m, c.size)
                         ELSE IF c.op = "free" THEN free(m, c.ptr, ndebug)
                         ELSE realloc(m, c.ptr, c.size, ndebug)}} : TRUE

\* the pointers the caller holds after call c returned ret
HeldAfter(ptrs, c, ret) ==
  IF c.op = "malloc" THEN ptrs \cup ({ret} \ {nullptr})
  ELSE IF c.op = "free" THEN ptrs \ {c.ptr}
  ELSE IF c.size = SizeT(0) THEN ptrs \ {c.ptr}
  ELSE IF ret # nullptr THEN (ptrs \ {c.ptr}) \cup {ret}
  ELSE ptrs

\* the builds that differ on call c: assert() is met only with a pointer
Builds(c) == IF c.ptr = nullptr THEN {TRUE} ELSE BOOLEAN

\* every sequence of at most depth calls ends the same way and returns the
\* same pointers on storage m1 as on storage m2
RECURSIVE SameResults(_, _, _, _)
SameResults(m1, m2, ptrs, depth) ==
  depth = 0 \/
    \A c \in Replayed(ptrs), seed \in Seeds :
     \A ndebug \in Builds(c) :
      \E r1 \in {Made(m1, c, ndebug, seed)}, r2 \in {Made(m2, c, ndebug, seed)} :
        /\ r1.st = r2.st
        /\ r1.st = "ok" =>
             /\ r1.ret = r2.ret
             /\ SameResults(r1.m, r2.m, HeldAfter(ptrs, c, r1.ret), depth - 1)

\* after init() every sequence of MaxReplay calls, of any sizes, gives the
\* results it gives on the never-used arena
ReplayAfterInit ==
  (last.op = "init" /\ status = "ok") =>
    \A g \in Garbage : SameResults(storage_, NeverUsed(g), {}, MaxReplay)

FreeBlocks(m) == {b \in Blocks(m) : is_free(m, b)}

\* the walk of find_first_free_block_of_size for a request that no block
\* holds: from blocks[0].next_free along next_free, it is back at cell 0
\* after at most as many nodes as there are free blocks, none met twice
SearchEnds(m) ==
  /\ FreeWalkEnds(m)
  /\ Len(FreeWalk(m)) <= Cardinality(FreeBlocks(m))
  /\ \A i, j \in 1..Len(FreeWalk(m)) : i # j => FreeWalk(m)[i] # FreeWalk(m)[j]
  /\ \A k \in 0..(block_count_ + 1) :
       find_first_free_block_of_size(m, Unsigned(k)).st = "ok"

\* C28: every public call ends: no call is left in a loop, and in every
\* state a call starts from the walk along next_free from blocks[0].next_free
\* is back at cell 0 after at most as many nodes as there are free blocks,
\* so the free list has no cycle that avoids cell 0; the search is the only
\* loop of malloc, realloc and free.
EveryCallEnds ==
  /\ status # "hung"
  /\ status = "ok" => SearchEnds(storage_)

(***************************************************************************)
(* C29: what join writes.                                                  *)
(***************************************************************************)
\* the precondition of join: b1 follows b0 and points back to it, the lower
\* block first, and a block follows b1
JoinPre(m, b0, b1) ==
  /\ b0 < b1
  /\ Get(m, b0, off_next) = b1
  /\ prev_masked(m, b1) = b0
  /\ b1 < Get(m, b1, off_next)
  /\ InArena(Get(m, b1, off_next))

JoinPairs(m) ==
  {p \in (0..last_index) \X (0..last_index) : JoinPre(m, p[1], p[2])}

\* the bytes of field off of cell c
Field(c, off) == {c * block_size + off, c * block_size + off + 1}

\* join(b0, b1) on storage m ended as r: b0.next is b1.next, the block that
\* followed b1 points back to b0, b0 has the flag it had, and no other byte
\* of the storage changed, so no next_free or prev_free
JoinRelinks(m, b0, b1, r) ==
  LET follower == Get(m, b1, off_next)
  IN  /\ r.st = "ok"
      /\ Get(r.m, b0, off_next) = follower
      /\ prev_masked(r.m, follower) = b0
      /\ is_free(r.m, b0) = is_free(m, b0)
      /\ \A a \in (0..(Bytes - 1)) \ (Field(b0, off_next) \cup Field(follower, off_prev)) :
           r.m[a] = m[a]
      /\ FreeWalk(r.m) = FreeWalk(m)

\* C29 as stated: join(b0, b1) on any pair that satisfies its precondition
\* sets b0.next to b1.next and the prev of the block that followed b1 to
\* index(b0), that block keeping its own free flag; b0 keeps its flag and
\* the free list is not modified.
JoinKeepsFollowerFlag ==
  status = "ok" =>
    \A p \in JoinPairs(storage_), ndebug \in BOOLEAN :
      \E r \in {join(Run(storage_), p[1], p[2], ndebug)} :
        /\ JoinRelinks(storage_, p[1], p[2], r)
        /\ is_free(r.m, Get(storage_, p[2], off_next))
             = is_free(storage_, Get(storage_, p[2], off_next))

\* C29, amended: join(b0, b1) on any pair that satisfies its precondition
\* sets b0.next to b1.next and the prev of the block that followed b1 to
\* index(b0) with the free flag clear, whatever flag that block had: its
\* flag is kept only if it was a used block; b0 keeps its flag and the free
\* list is not modified.
JoinClearsFollowerFlag ==
  status = "ok" =>
    \A p \in JoinPairs(storage_), ndebug \in BOOLEAN :
      \E r \in {join(Run(storage_), p[1], p[2], ndebug)} :
        /\ JoinRelinks(storage_, p[1], p[2], r)
        /\ ~is_free(r.m, Get(storage_, p[2], off_next))

\* a pair that join accepts is followed by a free block, and join of the
\* pair leaves that block without its flag
JoinBeforeFreeBlock ==
  /\ status = "ok"
  /\ \E p \in JoinPairs(storage_) :
       /\ is_free(storage_, Get(storage_, p[2], off_next))
       /\ ~is_free(join(Run(storage_), p[1], p[2], TRUE).m,
                   Get(storage_, p[2], off_next))
       /\ Get(join(Run(storage_), p[1], p[2], TRUE).m, p[1], off_next)
            = Get(storage_, p[2], off_next)

====
